---- MODULE Spec2Model ----
(***************************************************************************)
(* Model of the object scanner of the mark-sweep collector,                *)
(* src/gc/mark_sweep-inl.h: ScanObjectVisit, VisitObjectReferences,        *)
(* VisitClassReferences, VisitFieldsReferences (bitmap path and            *)
(* walk-super path) and VisitObjectArrayReferences.                        *)
(*                                                                         *)
(* The heap is a map from object to (byte offset -> stored word).  A       *)
(* visitor is modelled as a recorder: the sequence of its invocations      *)
(* (holder, referent, offset, is_static) is what a scan returns.           *)
(***************************************************************************)
EXTENDS Integers, Sequences, FiniteSets, TLC

VARIABLES
  kIsDebugBuild,        \* build flag read at line 30
  kCountScannedTypes,   \* build flag read at lines 38, 43, 51
  classes,              \* class metadata: mirror::Class fields per class
  mem,                  \* heap words: mem[obj][offset]
  marked,               \* mark bitmap: set of marked objects
  class_count_,         \* MarkSweep::class_count_
  array_count_,         \* MarkSweep::array_count_
  other_count_,         \* MarkSweep::other_count_
  weak_reference_list_, \* head of the pending list fed by DelayReferenceReferent
  hist,                 \* the last completed calls, oldest first
  call,                 \* the most recent entry-point invocation
  ncalls,               \* number of entry-point invocations so far
  log,                  \* diagnostics emitted (DumpSpaces, LOG(FATAL))
  aborted,              \* LOG(FATAL) has ended the process
  pc,                   \* per marking worker: position inside ScanObjectVisit
  cur,                  \* per marking worker: object being scanned
  tmp,                  \* per marking worker: counter value loaded by ++
  todo,                 \* objects waiting to be scanned by the workers
  scanned               \* number of scans begun, per classification

vars == <<kIsDebugBuild, kCountScannedTypes, classes, mem, marked,
          class_count_, array_count_, other_count_, weak_reference_list_,
          hist, call, ncalls, log, aborted, pc, cur, tmp, todo, scanned>>

(***************************************************************************)
(* Bounds.                                                                 *)
(***************************************************************************)
MaxScans == 2
MaxLen == 3
MaxSlot == 5
MaxWork == 3
NumWorkers == 2

(***************************************************************************)
(* Layout constants of the runtime.                                       *)
(***************************************************************************)
WordBits == 32
CLASS_OFFSET_ALIGNMENT == 4
RefWidth == 4
ClassOffset == 0
MonitorOffset == 4
SuperClassOffset == 8
ComponentTypeOffset == 12
ArrayLengthOffset == 8
ArrayDataOffset == 12
PendingNextOffset == 8
QueueOffset == 12
ReferentOffset == 16

NULL == "null"
java_lang_Class_ == "Class"

(***************************************************************************)
(* A uint32_t is held as the set of the positions of its set bits, bit 0   *)
(* being the least significant: the word 3 is {0, 1}, the word 0 is {}.    *)
(* Every 32-bit value has exactly one such set, so no width is lost.       *)
(***************************************************************************)
Word == SUBSET (0..(WordBits - 1))
CLASS_WALK_SUPER == {0, 1}
CLASS_HIGH_BIT == {WordBits - 1}

MaxOf(S) == CHOOSE m \in S : \A n \in S : n <= m

\* x >> n
ShiftRight(x, n) == {b - n : b \in {c \in x : c >= n}}

\* count leading zeros of a non-zero 32-bit word
CLZ(x) == (WordBits - 1) - MaxOf(x)

CLASS_OFFSET_FROM_CLZ(rshift) == rshift * CLASS_OFFSET_ALIGNMENT

CLASS_BIT_FROM_OFFSET(byteOffset) ==
  ShiftRight(CLASS_HIGH_BIT, byteOffset \div CLASS_OFFSET_ALIGNMENT)

\* x & ~y
AndNot(x, y) == x \ y

\* the bitmap with one bit per reference field offset
BitmapOf(offsets) == UNION {CLASS_BIT_FROM_OFFSET(o) : o \in offsets}

Range(s) == {s[i] : i \in DOMAIN s}

(***************************************************************************)
(* Class metadata.                                                         *)
(***************************************************************************)
ClassNames == {"Object", "Class", "String", "Node", "Sub", "NodeW", "SubW",
               "Reference", "ObjectArray", "IntArray"}

SuperOf(k) ==
  CASE k = "Object" -> NULL
    [] k = "Sub" -> "Node"
    [] k = "SubW" -> "NodeW"
    [] OTHER -> "Object"

\* reference instance fields a class declares itself, in declaration order
DeclaredIFields(k, nodeF, subF) ==
  CASE k = "Object" -> <<ClassOffset>>
    [] k = "Class" -> <<SuperClassOffset, ComponentTypeOffset>>
    [] k \in {"Node", "NodeW"} -> nodeF
    [] k \in {"Sub", "SubW"} -> subF
    [] k = "Reference" -> <<PendingNextOffset, QueueOffset>>
    [] OTHER -> <<>>

\* reference static fields a class declares itself, in declaration order
DeclaredSFields(k, nodeS) ==
  CASE k \in {"Node", "NodeW"} -> nodeS
    [] OTHER -> <<>>

RECURSIVE AllIFields(_, _, _)
AllIFields(k, nodeF, subF) ==
  IF k = NULL THEN {}
  ELSE Range(DeclaredIFields(k, nodeF, subF)) \cup AllIFields(SuperOf(k), nodeF, subF)

WalkSuperClasses == {"NodeW", "SubW"}

ClassTable(nodeF, subF, nodeS) ==
  [k \in ClassNames |->
    [super_class_ |-> SuperOf(k),
     ifields_ |-> DeclaredIFields(k, nodeF, subF),
     sfields_ |-> DeclaredSFields(k, nodeS),
     reference_instance_offsets_ |->
       IF k \in WalkSuperClasses THEN CLASS_WALK_SUPER
       ELSE BitmapOf(AllIFields(k, nodeF, subF)),
     reference_static_offsets_ |->
       IF k \in WalkSuperClasses THEN CLASS_WALK_SUPER
       ELSE BitmapOf(Range(DeclaredSFields(k, nodeS))),
     is_array |-> k \in {"ObjectArray", "IntArray"},
     is_object_array |-> k = "ObjectArray",
     is_reference |-> k = "Reference"]]

BaseClasses == ClassTable(<<8, 16>>, <<20>>, <<16>>)

(***************************************************************************)
(* Heap contents.                                                          *)
(***************************************************************************)
Instances == {"n1", "n2", "n3", "x", "s1", "n1w", "s1w", "r1", "r2",
              "arr", "ia", "wide"}
Objects == ClassNames \cup Instances

KlassOf(o) ==
  CASE o \in ClassNames -> java_lang_Class_
    [] o \in {"n1", "n2", "n3"} -> "Node"
    [] o = "x" -> "String"
    [] o = "s1" -> "Sub"
    [] o = "n1w" -> "NodeW"
    [] o = "s1w" -> "SubW"
    [] o \in {"r1", "r2"} -> "Reference"
    [] o = "arr" -> "ObjectArray"
    [] o = "ia" -> "IntArray"
    [] OTHER -> "Object"

ElementAt(i) ==
  CASE i % 4 = 0 -> "n1"
    [] i % 4 = 1 -> NULL
    [] i % 4 = 2 -> "n2"
    [] OTHER -> "x"

WideWord(i) ==
  CASE i = 0 -> "Object"
    [] i % 4 = 1 -> "n1"
    [] i % 4 = 2 -> NULL
    [] i % 4 = 3 -> "x"
    [] OTHER -> "n2"

\* the words of one object; intField is what a Node's int field holds
ObjectWords(o, len, intField) ==
  LET hdr == (ClassOffset :> KlassOf(o)) @@ (MonitorOffset :> "raw")
      f(a, b, c) == (8 :> a) @@ (12 :> b) @@ (16 :> c)
  IN CASE o \in ClassNames ->
            hdr @@ (SuperClassOffset :> SuperOf(o))
                @@ (ComponentTypeOffset :> (IF o = "ObjectArray" THEN "Object" ELSE NULL))
                @@ (16 :> (IF o \in {"Node", "NodeW"} THEN "n1" ELSE NULL))
                @@ (20 :> (IF o \in {"Node", "NodeW"} THEN "x" ELSE NULL))
       [] o \in {"n1", "n1w"} -> hdr @@ f("n2", intField, "x")
       [] o = "n2" -> hdr @@ f(NULL, intField, NULL)
       [] o = "n3" -> hdr @@ f(NULL, intField, "x")
       [] o \in {"s1", "s1w"} -> hdr @@ f(NULL, intField, "x") @@ (20 :> "n2") @@ (24 :> "n1")
       [] o = "r1" -> hdr @@ f(NULL, NULL, "n2")
       [] o = "r2" -> hdr @@ f(NULL, NULL, "x")
       [] o = "arr" -> hdr @@ (ArrayLengthOffset :> len)
                           @@ [off \in {i * RefWidth + ArrayDataOffset : i \in 0..(len - 1)} |->
                                 ElementAt((off - ArrayDataOffset) \div RefWidth)]
       [] o = "ia" -> hdr @@ (ArrayLengthOffset :> 2) @@ (12 :> "raw") @@ (16 :> "raw")
       [] o = "wide" -> [off \in {i * CLASS_OFFSET_ALIGNMENT : i \in 0..(WordBits - 1)} |->
                           WideWord(off \div CLASS_OFFSET_ALIGNMENT)]
       [] OTHER -> hdr

HeapWords(len, intField) == [o \in Objects |-> ObjectWords(o, len, intField)]

(***************************************************************************)
(* Accessors of mirror::Object, mirror::Class and mirror::Array used by    *)
(* the scanner.                                                            *)
(***************************************************************************)
GetFieldObject(obj, field_offset) == mem[obj][field_offset]
GetClass(obj) == mem[obj][ClassOffset]
GetSuperClass(klass) == mem[klass][SuperClassOffset]
GetLength(array) == mem[array][ArrayLengthOffset]
GetWithoutChecks(array, i) == mem[array][i * RefWidth + ArrayDataOffset]
GetReferenceInstanceOffsets(klass) == classes[klass].reference_instance_offsets_
GetReferenceStaticOffsets(klass) == classes[klass].reference_static_offsets_
NumReferenceInstanceFields(klass) == Len(classes[klass].ifields_)
NumReferenceStaticFields(klass) == Len(classes[klass].sfields_)
GetInstanceField(klass, i) == classes[klass].ifields_[i + 1]
GetStaticField(klass, i) == classes[klass].sfields_[i + 1]
IsArrayClass(klass) == classes[klass].is_array
IsObjectArrayClass(klass) == classes[klass].is_object_array
IsReferenceClass(klass) == classes[klass].is_reference
IsMarked(obj) == obj \in marked

\* one invocation of the visitor: visitor(obj, ref, offset, is_static)
Visit(obj, ref, offset, is_static) ==
  [holder |-> obj, ref |-> ref, offset |-> offset, is_static |-> is_static]

(***************************************************************************)
(* VisitFieldsReferences, lines 111-143.                                   *)
(***************************************************************************)
\* variant: an if in place of the while, only the first set bit is visited
BitmapLoop_StopAfterFirst(obj, ref_offsets, is_static) ==
  IF ref_offsets = {} THEN <<>>
  ELSE LET right_shift == CLZ(ref_offsets)
           field_offset == CLASS_OFFSET_FROM_CLZ(right_shift)
       IN <<Visit(obj, GetFieldObject(obj, field_offset), field_offset, is_static)>>

\* variant: the bits are taken from the least significant set bit upward
RECURSIVE BitmapLoop_LowFirst(_, _, _)
BitmapLoop_LowFirst(obj, ref_offsets, is_static) ==
  IF ref_offsets = {} THEN <<>>
  ELSE LET low == CHOOSE b \in ref_offsets : \A c \in ref_offsets : b <= c
           field_offset == CLASS_OFFSET_FROM_CLZ((WordBits - 1) - low)
       IN <<Visit(obj, GetFieldObject(obj, field_offset), field_offset, is_static)>>
            \o BitmapLoop_LowFirst(obj, AndNot(ref_offsets, {low}), is_static)

\* the while loop of the bitmap path, lines 116-122
RECURSIVE BitmapLoop(_, _, _)
BitmapLoop(obj, ref_offsets, is_static) ==
  IF ref_offsets = {} THEN <<>>
  ELSE LET right_shift == CLZ(ref_offsets)
           field_offset == CLASS_OFFSET_FROM_CLZ(right_shift)
           ref == GetFieldObject(obj, field_offset)
       IN <<Visit(obj, ref, field_offset, is_static)>>
            \o BitmapLoop(obj, AndNot(ref_offsets, ShiftRight(CLASS_HIGH_BIT, right_shift)),
                          is_static)

\* the inner for loop over one class level, lines 131-140
RECURSIVE LevelLoop(_, _, _, _)
LevelLoop(obj, klass, is_static, i) ==
  LET num_reference_fields == IF is_static THEN NumReferenceStaticFields(klass)
                              ELSE NumReferenceInstanceFields(klass)
  IN IF i < num_reference_fields
     THEN LET field_offset == IF is_static THEN GetStaticField(klass, i)
                              ELSE GetInstanceField(klass, i)
              ref == GetFieldObject(obj, field_offset)
          IN <<Visit(obj, ref, field_offset, is_static)>>
               \o LevelLoop(obj, klass, is_static, i + 1)
     ELSE <<>>

\* variant: the walk stops after the first class level in instance mode too
WalkLoop_NoAscend(obj, klass, is_static) ==
  IF klass = NULL THEN <<>> ELSE LevelLoop(obj, klass, is_static, 0)

\* the outer for loop over the class levels, lines 128-141
RECURSIVE WalkLoop(_, _, _)
WalkLoop(obj, klass, is_static) ==
  IF klass = NULL THEN <<>>
  ELSE LevelLoop(obj, klass, is_static, 0)
         \o WalkLoop(obj, IF is_static THEN NULL ELSE GetSuperClass(klass), is_static)

VisitFieldsReferences(obj, ref_offsets, is_static) ==
  IF ref_offsets # CLASS_WALK_SUPER
  THEN BitmapLoop(obj, ref_offsets, is_static)
  ELSE WalkLoop(obj, IF is_static THEN obj ELSE GetClass(obj), is_static)

VisitInstanceFieldsReferences(klass, obj) ==
  VisitFieldsReferences(obj, GetReferenceInstanceOffsets(klass), FALSE)

\* variant: the static fields are reported with is_static = false
VisitStaticFieldsReferences_AsInstance(klass) ==
  VisitFieldsReferences(klass, GetReferenceStaticOffsets(klass), FALSE)

VisitStaticFieldsReferences(klass) ==
  VisitFieldsReferences(klass, GetReferenceStaticOffsets(klass), TRUE)

VisitClassReferences(klass, obj) ==
  VisitInstanceFieldsReferences(klass, obj) \o VisitStaticFieldsReferences(obj)

VisitOtherReferences(klass, obj) == VisitInstanceFieldsReferences(klass, obj)

(***************************************************************************)
(* VisitObjectArrayReferences, lines 145-155.                              *)
(***************************************************************************)
\* variant: null elements are skipped
RECURSIVE ArrayLoop_SkipNull(_, _, _)
ArrayLoop_SkipNull(array, length, i) ==
  IF i < length
  THEN LET element == GetWithoutChecks(array, i)
           offset == i * RefWidth + ArrayDataOffset
       IN (IF element = NULL THEN <<>> ELSE <<Visit(array, element, offset, FALSE)>>)
            \o ArrayLoop_SkipNull(array, length, i + 1)
  ELSE <<>>

RECURSIVE ArrayLoop(_, _, _)
ArrayLoop(array, length, i) ==
  IF i < length
  THEN LET element == GetWithoutChecks(array, i)
           width == RefWidth
           offset == i * width + ArrayDataOffset
       IN <<Visit(array, element, offset, FALSE)>> \o ArrayLoop(array, length, i + 1)
  ELSE <<>>

VisitObjectArrayReferences(array) == ArrayLoop(array, GetLength(array), 0)

(***************************************************************************)
(* The two entry points.  Each returns the classification it took, the     *)
(* visitor invocations in order, and the objects handed to                 *)
(* DelayReferenceReferent in order.                                        *)
(***************************************************************************)
\* variant: the IsReferenceClass test and the hook call are missing
ScanObjectVisit_NoDelay(obj) ==
  LET klass == GetClass(obj)
  IN IF klass = java_lang_Class_
     THEN [kind |-> "class", calls |-> VisitClassReferences(klass, obj), delayed |-> <<>>]
     ELSE IF IsArrayClass(klass)
     THEN [kind |-> "array",
           calls |-> <<Visit(obj, klass, ClassOffset, FALSE)>>
                       \o (IF IsObjectArrayClass(klass)
                           THEN VisitObjectArrayReferences(obj) ELSE <<>>),
           delayed |-> <<>>]
     ELSE [kind |-> "other", calls |-> VisitOtherReferences(klass, obj), delayed |-> <<>>]

\* variant: the hook is called for every ordinary instance
ScanObjectVisit_DelayAlways(obj) ==
  LET klass == GetClass(obj)
  IN IF klass = java_lang_Class_
     THEN [kind |-> "class", calls |-> VisitClassReferences(klass, obj), delayed |-> <<>>]
     ELSE IF IsArrayClass(klass)
     THEN [kind |-> "array",
           calls |-> <<Visit(obj, klass, ClassOffset, FALSE)>>
                       \o (IF IsObjectArrayClass(klass)
                           THEN VisitObjectArrayReferences(obj) ELSE <<>>),
           delayed |-> <<>>]
     ELSE [kind |-> "other", calls |-> VisitOtherReferences(klass, obj),
           delayed |-> <<obj>>]

\* lines 34-58
ScanObjectVisit(obj) ==
  LET klass == GetClass(obj)
  IN IF klass = java_lang_Class_
     THEN [kind |-> "class", calls |-> VisitClassReferences(klass, obj), delayed |-> <<>>]
     ELSE IF IsArrayClass(klass)
     THEN [kind |-> "array",
           calls |-> <<Visit(obj, klass, ClassOffset, FALSE)>>
                       \o (IF IsObjectArrayClass(klass)
                           THEN VisitObjectArrayReferences(obj) ELSE <<>>),
           delayed |-> <<>>]
     ELSE [kind |-> "other",
           calls |-> VisitOtherReferences(klass, obj),
           delayed |-> IF IsReferenceClass(klass) THEN <<obj>> ELSE <<>>]

\* variant: the array case does not report the class-pointer slot
VisitObjectReferences_NoClassSlot(obj) ==
  LET klass == GetClass(obj)
  IN IF klass = java_lang_Class_
     THEN [kind |-> "class", calls |-> VisitClassReferences(klass, obj), delayed |-> <<>>]
     ELSE IF IsArrayClass(klass)
          THEN [kind |-> "array",
                calls |-> IF IsObjectArrayClass(klass)
                          THEN VisitObjectArrayReferences(obj) ELSE <<>>,
                delayed |-> <<>>]
          ELSE [kind |-> "other", calls |-> VisitOtherReferences(klass, obj),
                delayed |-> <<>>]

\* lines 61-83
VisitObjectReferences(obj) ==
  LET klass == GetClass(obj)
  IN IF klass = java_lang_Class_
     THEN [kind |-> "class", calls |-> VisitClassReferences(klass, obj), delayed |-> <<>>]
     ELSE IF IsArrayClass(klass)
          THEN [kind |-> "array",
                calls |-> <<Visit(obj, klass, ClassOffset, FALSE)>>
                            \o (IF IsObjectArrayClass(klass)
                                THEN VisitObjectArrayReferences(obj) ELSE <<>>),
                delayed |-> <<>>]
          ELSE [kind |-> "other", calls |-> VisitOtherReferences(klass, obj),
                delayed |-> <<>>]

\* variant: the marked check is compiled out
ScanIsFatal_Never(obj) == FALSE

\* the debug precondition of ScanObjectVisit, lines 30-33
ScanIsFatal(obj) == kIsDebugBuild /\ ~IsMarked(obj)

(***************************************************************************)
(* The collector's deferred-reference hook, called at line 56 with the     *)
(* const qualifier cast away: a reference whose referent is set and not    *)
(* yet marked is linked into the pending list through its pendingNext      *)
(* field.  Returns the heap words and the list head afterwards.            *)
(***************************************************************************)
DelayReferenceReferent(m, list, obj) ==
  LET pending == m[obj][PendingNextOffset]
      referent == m[obj][ReferentOffset]
  IN IF pending = NULL /\ referent # NULL /\ ~IsMarked(referent)
     THEN IF list = NULL
          THEN [mem |-> [m EXCEPT ![obj][PendingNextOffset] = obj], list |-> obj]
          ELSE LET head == m[list][PendingNextOffset]
               IN [mem |-> [m EXCEPT ![obj][PendingNextOffset] = head,
                                     ![list][PendingNextOffset] = obj],
                   list |-> list]
     ELSE [mem |-> m, list |-> list]

RECURSIVE DelayAll(_, _, _)
DelayAll(m, list, objs) ==
  IF objs = <<>> THEN [mem |-> m, list |-> list]
  ELSE LET r == DelayReferenceReferent(m, list, Head(objs))
       IN DelayAll(r.mem, r.list, Tail(objs))

(***************************************************************************)
(* Observation of completed calls.                                         *)
(***************************************************************************)
Record(id, entry, obj, arg, static, res) ==
  [id |-> id, entry |-> entry, obj |-> obj, arg |-> arg, static |-> static,
   pre |-> mem[obj], kind |-> res.kind, calls |-> res.calls, delayed |-> res.delayed]

Push(h, r) == IF Len(h) < 2 THEN Append(h, r) ELSE <<h[2], r>>

Workers == 1..NumWorkers
NoCall == [entry |-> "none", obj |-> NULL]
NoScans == [class |-> 0, array |-> 0, other |-> 0]

workerVars == <<pc, cur, tmp, todo, scanned>>
heapVars == <<mem, weak_reference_list_>>
countVars == <<class_count_, array_count_, other_count_>>
fixedVars == <<kIsDebugBuild, kCountScannedTypes, classes, marked>>

(***************************************************************************)
(* Specification Spec: one thread calling the two entry points.            *)
(***************************************************************************)
Unmarkable == {"x", "n2", "arr"}
Targets == {"Class", "Node", "NodeW", "n3", "s1w", "r1", "r2", "arr", "ia"}

Init ==
  /\ kIsDebugBuild \in BOOLEAN
  /\ kCountScannedTypes \in BOOLEAN
  /\ classes = BaseClasses
  /\ mem \in {HeapWords(len, "raw") : len \in 0..MaxLen}
  /\ marked \in {Objects \ U : U \in SUBSET Unmarkable}
  /\ class_count_ = 0 /\ array_count_ = 0 /\ other_count_ = 0
  /\ weak_reference_list_ = NULL
  /\ hist = <<>>
  /\ call = NoCall
  /\ ncalls = 0
  /\ log = <<>>
  /\ aborted = FALSE
  /\ pc = [w \in Workers |-> "idle"]
  /\ cur = [w \in Workers |-> NULL]
  /\ tmp = [w \in Workers |-> 0]
  /\ todo = {}
  /\ scanned = NoScans

\* MarkSweep::ScanObjectVisit, lines 27-59, run to completion
ScanObject(obj) ==
  /\ ~aborted
  /\ ncalls < MaxScans
  /\ ncalls' = ncalls + 1
  /\ call' = [entry |-> "ScanObject", obj |-> obj]
  /\ IF ScanIsFatal(obj)
     THEN /\ log' = log \o <<"DumpSpaces", "FATAL">>
          /\ aborted' = TRUE
          /\ UNCHANGED <<hist, heapVars, countVars>>
     ELSE LET res == ScanObjectVisit(obj)
              after == DelayAll(mem, weak_reference_list_, res.delayed)
          IN /\ class_count_' = IF kCountScannedTypes /\ res.kind = "class"
                                THEN class_count_ + 1 ELSE class_count_
             /\ array_count_' = IF kCountScannedTypes /\ res.kind = "array"
                                THEN array_count_ + 1 ELSE array_count_
             /\ other_count_' = IF kCountScannedTypes /\ res.kind = "other"
                                THEN other_count_ + 1 ELSE other_count_
             /\ mem' = after.mem
             /\ weak_reference_list_' = after.list
             /\ hist' = Push(hist, Record(ncalls + 1, "ScanObject", obj, {}, FALSE, res))
             /\ UNCHANGED <<log, aborted>>
  /\ UNCHANGED <<fixedVars, workerVars>>

\* MarkSweep::VisitObjectReferences, lines 61-83, run to completion
CallVisitObjectReferences(obj) ==
  /\ ~aborted
  /\ ncalls < MaxScans
  /\ ncalls' = ncalls + 1
  /\ call' = [entry |-> "VisitObjectReferences", obj |-> obj]
  /\ hist' = Push(hist, Record(ncalls + 1, "VisitObjectReferences", obj, {}, FALSE,
                               VisitObjectReferences(obj)))
  /\ UNCHANGED <<heapVars, countVars, log, aborted, fixedVars, workerVars>>

Next ==
  \/ \E obj \in Targets : ScanObject(obj)
  \/ \E obj \in Targets : CallVisitObjectReferences(obj)

Spec == Init /\ [][Next]_vars

(***************************************************************************)
(* Properties of the entry points, checked under Spec.                     *)
(***************************************************************************)
HistRecs == Range(hist)
ScanRecs == {r \in HistRecs : r.entry = "ScanObject"}
VisitRecs == {r \in HistRecs : r.entry = "VisitObjectReferences"}
RecKlass(r) == r.pre[ClassOffset]
IsOrdinary(r) == RecKlass(r) # java_lang_Class_ /\ ~IsArrayClass(RecKlass(r))

Pair(c) == <<c.offset, c.ref>>
PairCount(calls, p) == Cardinality({i \in DOMAIN calls : Pair(calls[i]) = p})
SameMultiset(a, b) ==
  \A p \in {Pair(a[i]) : i \in DOMAIN a} \cup {Pair(b[i]) : i \in DOMAIN b} :
    PairCount(a, p) = PairCount(b, p)

\* the field offsets a reference-offset word describes for a class level
DescribedOffsets(word, fields) ==
  IF word # CLASS_WALK_SUPER
  THEN {((WordBits - 1) - b) * CLASS_OFFSET_ALIGNMENT : b \in word}
  ELSE Range(fields)

\* C1 as stated: for one object in one heap state, ScanObject and
\* VisitObjectReferences take the same case, make the same visitor
\* invocations and hand the same objects to DelayReferenceReferent.
C1_SameEffectsIncludingHook ==
  \A a \in ScanRecs : \A b \in VisitRecs :
    (a.obj = b.obj /\ a.pre = b.pre) =>
      (a.kind = b.kind /\ a.calls = b.calls /\ a.delayed = b.delayed)

\* C1 amended: for one object in one heap state, ScanObject and
\* VisitObjectReferences take the same case and make the same sequence of
\* visitor invocations; VisitObjectReferences never calls
\* DelayReferenceReferent, ScanObject calls it for a reference-class instance.
C1_SameVisitorInvocations ==
  \A a \in ScanRecs : \A b \in VisitRecs :
    (a.obj = b.obj /\ a.pre = b.pre) =>
      /\ a.kind = b.kind
      /\ a.calls = b.calls
      /\ b.delayed = <<>>
      /\ (IsOrdinary(a) /\ IsReferenceClass(RecKlass(a))) => a.delayed = <<a.obj>>

C1_Witness ==
  \E a \in ScanRecs : \E b \in VisitRecs :
    /\ a.obj = b.obj /\ a.pre = b.pre
    /\ IsReferenceClass(RecKlass(a))
    /\ Len(b.calls) > 0

C4_MetaClassDuality ==
  \A r \in ScanRecs :
    RecKlass(r) = java_lang_Class_ =>
      LET inst == DescribedOffsets(GetReferenceInstanceOffsets(java_lang_Class_),
                                   classes[java_lang_Class_].ifields_
                                     \o classes["Object"].ifields_)
          stat == DescribedOffsets(GetReferenceStaticOffsets(r.obj),
                                   classes[r.obj].sfields_)
          n == Cardinality(inst)
          c == r.calls
      IN /\ Len(c) = n + Cardinality(stat)
         /\ {c[i].offset : i \in 1..n} = inst
         /\ {c[i].offset : i \in (n + 1)..Len(c)} = stat
         /\ \A i \in 1..Len(c) : c[i].is_static = (i > n)
         /\ \A i, j \in 1..Len(c) : c[i].offset = c[j].offset => i = j
         /\ \A i \in 1..Len(c) : c[i].holder = r.obj /\ c[i].ref = r.pre[c[i].offset]

C4_Witness ==
  \E r \in ScanRecs :
    /\ RecKlass(r) = java_lang_Class_
    /\ \E i \in DOMAIN r.calls : r.calls[i].is_static /\ r.calls[i].ref # NULL
    /\ \E i \in DOMAIN r.calls : ~r.calls[i].is_static

\* C5: scanning an object array of length N makes N + 1 visitor invocations:
\* the class-pointer slot, then element i = 0..N-1 in ascending order at
\* offset i * width + dataOffset, null elements included; any other array
\* makes only the class-pointer invocation.
C5_ArrayCompleteInOrder ==
  \A r \in ScanRecs :
    (RecKlass(r) # java_lang_Class_ /\ IsArrayClass(RecKlass(r))) =>
      LET N == r.pre[ArrayLengthOffset]
          c == r.calls
      IN /\ Len(c) >= 1
         /\ c[1] = Visit(r.obj, RecKlass(r), ClassOffset, FALSE)
         /\ IF IsObjectArrayClass(RecKlass(r))
            THEN /\ Len(c) = N + 1
                 /\ \A i \in 0..(N - 1) :
                      c[i + 2] = Visit(r.obj, r.pre[i * RefWidth + ArrayDataOffset],
                                       i * RefWidth + ArrayDataOffset, FALSE)
            ELSE Len(c) = 1

C5_Witness ==
  \E r \in ScanRecs :
    /\ IsObjectArrayClass(RecKlass(r))
    /\ r.pre[ArrayLengthOffset] = 3
    /\ Len(r.calls) = 4
    /\ r.calls[3].ref = NULL
    /\ r.calls[4].ref # NULL

\* C6: in a debug build a ScanObject call on an unmarked object emits
\* DumpSpaces, then the fatal log line, and ends the process; it makes no
\* visitor invocation, no counter increment and no hook call.
C6_UnmarkedScanIsFatal ==
  [][(ncalls' = ncalls + 1 /\ call'.entry = "ScanObject"
        /\ kIsDebugBuild /\ ~IsMarked(call'.obj))
       => (/\ aborted'
           /\ log' = log \o <<"DumpSpaces", "FATAL">>
           /\ UNCHANGED <<hist, mem, weak_reference_list_,
                          class_count_, array_count_, other_count_>>)]_vars

C6_Witness ==
  /\ aborted
  /\ kIsDebugBuild /\ kCountScannedTypes
  /\ call.entry = "ScanObject" /\ ~IsMarked(call.obj)
  /\ Len(hist) = 1

WorkTargets == {"Class", "Node", "n3", "s1w", "r1", "arr", "ia"}

KindOf(obj) ==
  LET klass == GetClass(obj)
  IN IF klass = java_lang_Class_ THEN "class"
     ELSE IF IsArrayClass(klass) THEN "array" ELSE "other"

CounterOf(kind) ==
  CASE kind = "class" -> class_count_
    [] kind = "array" -> array_count_
    [] OTHER -> other_count_

InitWorkers ==
  /\ kIsDebugBuild \in BOOLEAN
  /\ kCountScannedTypes \in BOOLEAN
  /\ classes = BaseClasses
  /\ mem = HeapWords(1, "raw")
  /\ marked \in {Objects, Objects \ {"n2"}}
  /\ class_count_ = 0 /\ array_count_ = 0 /\ other_count_ = 0
  /\ weak_reference_list_ = NULL
  /\ hist = <<>>
  /\ call = NoCall
  /\ ncalls = 0
  /\ log = <<>>
  /\ aborted = FALSE
  /\ pc = [w \in Workers |-> "idle"]
  /\ cur = [w \in Workers |-> NULL]
  /\ tmp = [w \in Workers |-> 0]
  /\ todo \in {S \in SUBSET WorkTargets : Cardinality(S) <= MaxWork}
  /\ scanned = NoScans

\* a worker enters ScanObjectVisit with the next object, lines 28-35
Take(w) ==
  /\ ~aborted
  /\ pc[w] = "idle"
  /\ \E obj \in todo :
       /\ todo' = todo \ {obj}
       /\ cur' = [cur EXCEPT ![w] = obj]
       /\ IF ScanIsFatal(obj)
          THEN /\ log' = log \o <<"DumpSpaces", "FATAL">>
               /\ aborted' = TRUE
               /\ UNCHANGED <<pc, scanned>>
          ELSE /\ pc' = [pc EXCEPT ![w] = IF kCountScannedTypes THEN "load" ELSE "visit"]
               /\ scanned' = [scanned EXCEPT ![KindOf(obj)] = @ + 1]
               /\ UNCHANGED <<log, aborted>>
  /\ UNCHANGED <<fixedVars, heapVars, countVars, hist, call, ncalls, tmp>>

\* the read half of ++class_count_ / ++array_count_ / ++other_count_
LoadCount(w) ==
  /\ ~aborted
  /\ pc[w] = "load"
  /\ tmp' = [tmp EXCEPT ![w] = CounterOf(KindOf(cur[w]))]
  /\ pc' = [pc EXCEPT ![w] = "store"]
  /\ UNCHANGED <<fixedVars, heapVars, countVars, hist, call, ncalls, log, aborted,
                 cur, todo, scanned>>

\* the write half of ++class_count_ / ++array_count_ / ++other_count_
StoreCount(w) ==
  /\ ~aborted
  /\ pc[w] = "store"
  /\ LET kind == KindOf(cur[w])
     IN /\ class_count_' = IF kind = "class" THEN tmp[w] + 1 ELSE class_count_
        /\ array_count_' = IF kind = "array" THEN tmp[w] + 1 ELSE array_count_
        /\ other_count_' = IF kind = "other" THEN tmp[w] + 1 ELSE other_count_
  /\ pc' = [pc EXCEPT ![w] = "visit"]
  /\ UNCHANGED <<fixedVars, heapVars, hist, call, ncalls, log, aborted,
                 cur, tmp, todo, scanned>>

\* the visitor invocations and the hook call of the worker's scan
VisitRefs(w) ==
  /\ ~aborted
  /\ pc[w] = "visit"
  /\ LET res == ScanObjectVisit(cur[w])
         after == DelayAll(mem, weak_reference_list_, res.delayed)
     IN /\ mem' = after.mem
        /\ weak_reference_list_' = after.list
  /\ pc' = [pc EXCEPT ![w] = "idle"]
  /\ UNCHANGED <<fixedVars, countVars, hist, call, ncalls, log, aborted,
                 cur, tmp, todo, scanned>>

NextWorkers ==
  \/ \E w \in Workers : Take(w)
  \/ \E w \in Workers : LoadCount(w)
  \/ \E w \in Workers : StoreCount(w)
  \/ \E w \in Workers : VisitRefs(w)

SpecWorkers == InitWorkers /\ [][NextWorkers]_vars

MinOf(S) == CHOOSE m \in S : \A n \in S : m <= n

RECURSIVE Ascending(_)
Ascending(S) == IF S = {} THEN <<>> ELSE <<MinOf(S)>> \o Ascending(S \ {MinOf(S)})

RECURSIVE InstanceOffsets(_)
InstanceOffsets(klass) ==
  IF klass = NULL THEN {}
  ELSE Range(classes[klass].ifields_) \cup InstanceOffsets(classes[klass].super_class_)

\* the word the class linker stores for the layout when it can be encoded
EncodedWord(obj, is_static) ==
  IF is_static THEN BitmapOf(Range(classes[obj].sfields_))
  ELSE BitmapOf(InstanceOffsets(GetClass(obj)))

FieldTargets == [instance : {"n1", "s1"}, static : {FALSE}]
                  \cup [instance : {"Node", "Sub"}, static : {TRUE}]

InitFields ==
  /\ kIsDebugBuild = FALSE
  /\ kCountScannedTypes = FALSE
  /\ classes \in {ClassTable(Ascending(nf), Ascending(sf), Ascending(ns)) :
                    nf \in SUBSET {8, 12, 16}, sf \in SUBSET {20, 24},
                    ns \in SUBSET {16, 20}}
  /\ mem = HeapWords(0, "n3")
  /\ marked = Objects
  /\ class_count_ = 0 /\ array_count_ = 0 /\ other_count_ = 0
  /\ weak_reference_list_ = NULL
  /\ hist = <<>>
  /\ call = NoCall
  /\ ncalls = 0
  /\ log = <<>>
  /\ aborted = FALSE
  /\ pc = [w \in Workers |-> "idle"]
  /\ cur = [w \in Workers |-> NULL]
  /\ tmp = [w \in Workers |-> 0]
  /\ todo = {}
  /\ scanned = NoScans

\* a call of VisitFieldsReferences(obj, ref_offsets, is_static)
FieldsCall(obj, ref_offsets, is_static) ==
  /\ call' = [entry |-> "VisitFieldsReferences", obj |-> obj]
  /\ hist' = Push(hist, Record(0, "VisitFieldsReferences", obj, ref_offsets, is_static,
                               [kind |-> "fields",
                                calls |-> VisitFieldsReferences(obj, ref_offsets, is_static),
                                delayed |-> <<>>]))
  /\ UNCHANGED <<fixedVars, heapVars, countVars, ncalls, log, aborted, workerVars>>

NextFields ==
  \/ \E t \in FieldTargets : FieldsCall(t.instance, EncodedWord(t.instance, t.static), t.static)
  \/ \E t \in FieldTargets : FieldsCall(t.instance, CLASS_WALK_SUPER, t.static)

SpecFields == InitFields /\ [][NextFields]_vars

OffsetRefs(r) == {<<r.calls[i].offset, r.calls[i].ref, r.calls[i].is_static>> :
                    i \in DOMAIN r.calls}

\* C3: for one layout and the same field contents, the bitmap encoding and
\* CLASS_WALK_SUPER make VisitFieldsReferences report the same set of
\* (offset, referent) pairs with the same is_static flag.
C3_FastSlowEquivalence ==
  \A a, b \in HistRecs :
    (a.obj = b.obj /\ a.static = b.static
       /\ a.arg # CLASS_WALK_SUPER /\ b.arg = CLASS_WALK_SUPER)
      => /\ OffsetRefs(a) = OffsetRefs(b)
         /\ \A i \in DOMAIN a.calls : a.calls[i].is_static = a.static
         /\ \A i \in DOMAIN b.calls : b.calls[i].is_static = a.static

C3_Witness ==
  \E a, b \in HistRecs :
    /\ a.obj = "s1" /\ b.obj = "s1"
    /\ a.arg # CLASS_WALK_SUPER /\ b.arg = CLASS_WALK_SUPER
    /\ Len(a.calls) >= 4
    /\ a.calls # b.calls

\* the class levels from klass up to the root, by the metadata
RECURSIVE Levels(_)
Levels(klass) ==
  IF klass = NULL THEN <<>> ELSE <<klass>> \o Levels(classes[klass].super_class_)

RECURSIVE Flatten(_)
Flatten(ss) == IF ss = <<>> THEN <<>> ELSE Head(ss) \o Flatten(Tail(ss))

\* C10: with CLASS_WALK_SUPER, instance mode reports the declared reference
\* instance fields of the exact class, then of each superclass up to the
\* root, each level in declaration order and each field once; static mode
\* reports the class's own declared reference static fields in declaration
\* order and nothing of an ancestor.
C10_WalkSuperOrder ==
  \A r \in HistRecs :
    r.arg = CLASS_WALK_SUPER =>
      LET lv == Levels(RecKlass(r))
          expected == IF r.static THEN classes[r.obj].sfields_
                      ELSE Flatten([i \in DOMAIN lv |-> classes[lv[i]].ifields_])
      IN /\ Len(r.calls) = Len(expected)
         /\ \A i \in DOMAIN r.calls :
              r.calls[i] = Visit(r.obj, r.pre[expected[i]], expected[i], r.static)

C10_Witness ==
  /\ \E r \in HistRecs :
       /\ r.arg = CLASS_WALK_SUPER /\ ~r.static /\ r.obj = "s1"
       /\ Len(r.calls) = 6
  /\ \E r \in HistRecs :
       /\ r.arg = CLASS_WALK_SUPER /\ r.static /\ r.obj = "Sub"
       /\ classes["Node"].sfields_ # <<>>

(***************************************************************************)
(* Specification SpecBitmap: VisitFieldsReferences applied to 32-bit       *)
(* reference-offset words.                                                 *)
(***************************************************************************)
Values ==
  {hi \cup lo : hi \in SUBSET {(WordBits - 1) - p : p \in 0..(MaxSlot - 1)},
                lo \in SUBSET {0, 1}}
    \cup {0..(WordBits - 1)}

InitBitmap ==
  /\ kIsDebugBuild = FALSE
  /\ kCountScannedTypes = FALSE
  /\ classes = BaseClasses
  /\ mem = HeapWords(0, "raw")
  /\ marked = Objects
  /\ class_count_ = 0 /\ array_count_ = 0 /\ other_count_ = 0
  /\ weak_reference_list_ = NULL
  /\ hist = <<>>
  /\ call = NoCall
  /\ ncalls = 0
  /\ log = <<>>
  /\ aborted = FALSE
  /\ pc = [w \in Workers |-> "idle"]
  /\ cur = [w \in Workers |-> NULL]
  /\ tmp = [w \in Workers |-> 0]
  /\ todo = {}
  /\ scanned = NoScans

\* a call of VisitFieldsReferences(obj, ref_offsets, is_static) whose reads
\* stay inside the object
BitmapCall(obj, ref_offsets, is_static) ==
  /\ ref_offsets # CLASS_WALK_SUPER =>
       \A b \in ref_offsets :
         ((WordBits - 1) - b) * CLASS_OFFSET_ALIGNMENT \in DOMAIN mem[obj]
  /\ (ref_offsets = CLASS_WALK_SUPER /\ is_static) => obj \in ClassNames
  /\ call' = [entry |-> "VisitFieldsReferences", obj |-> obj]
  /\ hist' = <<Record(0, "VisitFieldsReferences", obj, ref_offsets, is_static,
                      [kind |-> "fields",
                       calls |-> VisitFieldsReferences(obj, ref_offsets, is_static),
                       delayed |-> <<>>])>>
  /\ UNCHANGED <<fixedVars, heapVars, countVars, ncalls, log, aborted, workerVars>>

NextBitmap ==
  \E obj \in {"wide", "n1", "Node"} : \E v \in Values : \E st \in BOOLEAN :
    BitmapCall(obj, v, st)

SpecBitmap == InitBitmap /\ [][NextBitmap]_vars

\* C9: for a word other than CLASS_WALK_SUPER, VisitFieldsReferences makes
\* exactly one visitor invocation per set bit and none per clear bit, at most
\* 32, from the most significant set bit downward, each at the offset
\* CLASS_OFFSET_FROM_CLZ gives for the bit and with the reference read there;
\* a Node with next and label as reference fields reports exactly
\* (offsetOf(next), n2) then (offsetOf(label), "x") and never its int field.
C9_BitmapPath ==
  \A r \in HistRecs :
    r.arg # CLASS_WALK_SUPER =>
      LET c == r.calls
      IN /\ Len(c) = Cardinality(r.arg)
         /\ Len(c) <= WordBits
         /\ {c[i].offset : i \in DOMAIN c} =
              {CLASS_OFFSET_FROM_CLZ((WordBits - 1) - b) : b \in r.arg}
         /\ \A i, j \in DOMAIN c : i < j => c[i].offset < c[j].offset
         /\ \A i \in DOMAIN c :
              c[i] = Visit(r.obj, r.pre[c[i].offset], c[i].offset, r.static)
         /\ (r.obj = "n1" /\ r.arg = {29, 27}) =>
              c = <<Visit("n1", "n2", 8, r.static), Visit("n1", "x", 16, r.static)>>

C9_Witness ==
  \E r \in HistRecs :
    /\ r.obj = "n1" /\ r.arg = {29, 27}
    /\ Len(r.calls) = 2
    /\ r.pre[12] = "raw"

====
